---- MODULE Spec2Model ----
\* libexecinfo: backtrace(), backtrace_symbols() and backtrace_symbols_fd()
\* of execinfo.c, with the release sequence of test.c (free_bt_symbols).
\*
\* Pointers are 64 bits wide (sizeof of a pointer is 8).  A pointer value is
\* a tuple of four 16-bit words, most significant first, so that %p and %td
\* are rendered at their real widths.  Text is a sequence of one-character
\* strings.  Heap addresses are plain integers (they are never rendered).
EXTENDS Integers, Sequences, FiniteSets, TLC

VARIABLES
    pc,      \* position of the running call
    stack,   \* the call chain above backtrace(): return address of frame k
    size,    \* the int size parameter of the running call
    i,       \* the loop variable i
    buffer,  \* the caller's void *buffer[]
    walk,    \* the Frame Walker queries made so far, in order
    written, \* the buffer indices backtrace() has stored to
    ret,     \* the value returned by backtrace()
    heap,    \* the live heap blocks, base address -> length in bytes
    nalloc,  \* the number of malloc()/realloc() calls made
    rval,    \* char **rval of backtrace_symbols(), 0 for a null pointer
    clen,    \* size_t clen: the bytes of the arena in use
    idx,     \* the pointer array at the start of the arena: rval[0 .. size-1]
    text,    \* the lines stored after the array: offset, room and characters
    symret,  \* what backtrace_symbols() returned, once it has
    moved,   \* how many times realloc() has moved the arena
    badfree, \* free() was handed an address that starts no live block
    fd,      \* the int fd parameter of backtrace_symbols_fd()
    static_buf, \* the text held by char static_buf[MAX_STACK_BUFFER]
    buf,     \* char *buf: 0 for static_buf, otherwise a heap block
    dyn,     \* the text held by the heap block buf points to
    len,     \* int len of backtrace_symbols_fd() for the current address
    out      \* the write() calls made: the bytes handed over and the result

symvars == <<heap, nalloc, rval, clen, idx, text, symret, moved, badfree>>

fdvars == <<fd, static_buf, buf, dyn, len, out>>

\* ---------------------------------------------------------------- bounds
MaxDepth == 3
MaxSize == 4
MaxCount == 2
NumBases == 2

\* ------------------------------------------------------- 64-bit pointers
NULL == <<0, 0, 0, 0>>

\* Return addresses of the modelled call chains.
AddrF == <<0, 21845, 21845, 20873>>
AddrG == <<0, 21845, 21845, 20999>>
\* Further addresses handed to the formatters; dladdr below says what the
\* loader knows about each.
AddrNeg == <<0, 21845, 21845, 24576>>
AddrWide == <<65535, 32768, 0, 4096>>
\* An address of the kernel's vsyscall page: no module contains it.
AddrUnmapped == <<65535, 65535, 65376, 0>>
AddrLong == <<0, 32767, 61440, 291>>
\* An address 10^15 bytes past the start of its symbol.
AddrFar == <<65523, 36222, 42182, 32768>>
\* What the caller's buffer holds before the call.
Untouched == <<0, 0, 43690, 43690>>

RetAddrs == {NULL, AddrF, AddrG}

\* The caller's array has one slot more than any capacity passed.
BufSlots == 0 .. MaxSize

\* ------------------------------------------------- 64-bit arithmetic, text
Word == 65536

\* a - b modulo 2^64: the ptrdiff_t difference of two pointers.
Sub64(a, b) ==
    LET d4 == a[4] - b[4]
        b4 == IF d4 < 0 THEN 1 ELSE 0
        d3 == a[3] - b[3] - b4
        b3 == IF d3 < 0 THEN 1 ELSE 0
        d2 == a[2] - b[2] - b3
        b2 == IF d2 < 0 THEN 1 ELSE 0
        d1 == a[1] - b[1] - b2
    IN  <<d1 % Word, d2 % Word, d3 % Word, d4 % Word>>

\* The sign of a 64-bit two's complement value.
IsNeg(a) == a[1] >= 32768

\* Quotient and remainder of an unsigned 64-bit value divided by ten.
DivMod10(a) ==
    LET c1 == a[1]
        c2 == (c1 % 10) * Word + a[2]
        c3 == (c2 % 10) * Word + a[3]
        c4 == (c3 % 10) * Word + a[4]
    IN  [q |-> <<c1 \div 10, c2 \div 10, c3 \div 10, c4 \div 10>>, r |-> c4 % 10]

Digits == <<"0", "1", "2", "3", "4", "5", "6", "7", "8", "9",
            "a", "b", "c", "d", "e", "f">>

RECURSIVE DecDigits(_)
DecDigits(a) ==
    IF a = NULL THEN <<>>
    ELSE DecDigits(DivMod10(a).q) \o <<Digits[DivMod10(a).r + 1]>>

\* An unsigned value in decimal.
UDec(a) == IF a = NULL THEN <<"0">> ELSE DecDigits(a)

\* printf %td: a ptrdiff_t as a signed decimal.
FmtTd(off) ==
    IF IsNeg(off) THEN <<"-">> \o UDec(Sub64(NULL, off)) ELSE UDec(off)

Nibbles(w) == <<w \div 4096, (w \div 256) % 16, (w \div 16) % 16, w % 16>>

RECURSIVE StripZeros(_)
StripZeros(s) ==
    IF Len(s) > 1 /\ Head(s) = 0 THEN StripZeros(Tail(s)) ELSE s

\* printf %p: (nil) for a null pointer, otherwise 0x and the hexadecimal
\* digits without leading zeros, at most 2 * sizeof(void *) of them.
FmtP(a) ==
    IF a = NULL THEN <<"(", "n", "i", "l", ")">>
    ELSE LET n == StripZeros(Nibbles(a[1]) \o Nibbles(a[2])
                             \o Nibbles(a[3]) \o Nibbles(a[4]))
         IN  <<"0", "x">> \o [k \in 1 .. Len(n) |-> Digits[n[k] + 1]]

\* strlen() of a text.
strlen(s) == Len(s)

\* snprintf(buf, n, ...): the text buf holds afterwards, for the rendered
\* text s and the text old it held before.  At most n - 1 characters are
\* stored; n = 0 stores nothing, not even a terminator; a negative int n
\* converts to a size_t larger than any text.
snprintf(old, n, s) ==
    IF n = 0 THEN old
    ELSE IF n < 0 \/ Len(s) <= n - 1 THEN s
    ELSE SubSeq(s, 1, n - 1)

\* s begins with p.
IsPrefix(p, s) == Len(p) <= Len(s) /\ SubSeq(s, 1, Len(p)) = p

\* ------------------------------------------------------------ Frame Walker
\* getframeaddr(k): the address of the k-th caller frame, NULL past the
\* outermost frame.
getframeaddr(k) ==
    IF k \in 1 .. Len(stack) THEN <<0, 32767, 65535, 65536 - 16 * k>> ELSE NULL

\* getreturnaddr(k): the return address stored in the k-th caller frame.
getreturnaddr(k) ==
    IF k \in 1 .. Len(stack) THEN stack[k] ELSE NULL

Stacks == UNION {[1 .. d -> RetAddrs] : d \in 0 .. MaxDepth}

\* -------------------------------------------------------------- backtrace
\* if (size <= 0) return 0;
NoCapacityOff(sz) == sz < 0
NoCapacity(sz) == sz <= 0

\* The loop condition getframeaddr(i + 1) != NULL && i != size + 1.
LoopContinuesLate == getframeaddr(i + 1) # NULL /\ i # size + 2
LoopContinues == getframeaddr(i + 1) # NULL /\ i # size + 1

\* The value stored by buffer[i - 1] = getreturnaddr(i).
FetchedNext == getreturnaddr(i + 1)
Fetched == getreturnaddr(i)

\* int backtrace(void **buffer, int size): entry, the size <= 0 return and
\* the loop initialisation i = 1.
BacktraceCall(sz, st) ==
    /\ pc = "idle"
    /\ stack' = st
    /\ size' = sz
    /\ buffer' = [k \in BufSlots |-> Untouched]
    /\ walk' = <<>>
    /\ written' = {}
    /\ IF NoCapacity(sz)
         THEN /\ ret' = 0
              /\ i' = 0
              /\ pc' = "bt_done"
         ELSE /\ ret' = -1
              /\ i' = 1
              /\ pc' = "bt_test"
    /\ UNCHANGED symvars
    /\ UNCHANGED fdvars

\* The loop condition: getframeaddr(i + 1) != NULL && i != size + 1.  The
\* walker is queried first; when the condition fails the function returns
\* i - 1.
BacktraceTest ==
    /\ pc = "bt_test"
    /\ walk' = Append(walk, <<"frame", i + 1>>)
    /\ IF LoopContinues
         THEN /\ pc' = "bt_body"
              /\ ret' = ret
         ELSE /\ pc' = "bt_done"
              /\ ret' = i - 1
    /\ UNCHANGED <<stack, size, i, buffer, written>>
    /\ UNCHANGED symvars
    /\ UNCHANGED fdvars

\* The loop body: buffer[i - 1] = getreturnaddr(i); break on NULL; i++.
BacktraceBody ==
    /\ pc = "bt_body"
    /\ walk' = Append(walk, <<"return", i>>)
    /\ buffer' = [buffer EXCEPT ![i - 1] = Fetched]
    /\ written' = written \cup {i - 1}
    /\ IF Fetched = NULL
         THEN /\ pc' = "bt_done"
              /\ ret' = i - 1
              /\ i' = i
         ELSE /\ pc' = "bt_test"
              /\ ret' = ret
              /\ i' = i + 1
    /\ UNCHANGED <<stack, size>>
    /\ UNCHANGED symvars
    /\ UNCHANGED fdvars

\* ---------------------------------------------------------------- loader
\* A null char pointer (no text is made of a multi-character element).
NullStr == <<"(null pointer)">>

PtrSize == 8
MAX_STACK_BUFFER == 4096

ModulePath == <<"/", "l", "i", "b", "/", "a", ".", "s", "o">>
\* The longest path the platform admits, longer than MAX_STACK_BUFFER
\* once the rest of a line is added.
LongPath == [k \in 1 .. MAX_STACK_BUFFER - 1 |-> IF k = 1 THEN "/" ELSE "x"]

\* dladdr(addr, &info): the loader's answer for each modelled address.
\* ok is the return value being non-zero.
dladdr(a) ==
    CASE a = AddrF ->
           [ok |-> TRUE, dli_sname |-> <<"f", "1">>,
            dli_saddr |-> <<0, 21845, 21845, 20864>>, dli_fname |-> ModulePath]
      [] a = AddrG ->
           [ok |-> TRUE, dli_sname |-> NullStr,
            dli_saddr |-> NULL, dli_fname |-> ModulePath]
      [] a = AddrNeg ->
           [ok |-> TRUE, dli_sname |-> <<"g">>,
            dli_saddr |-> <<0, 21845, 21845, 24577>>, dli_fname |-> ModulePath]
      [] a = AddrWide ->
           [ok |-> TRUE, dli_sname |-> NullStr,
            dli_saddr |-> <<32767, 32768, 0, 4096>>, dli_fname |-> ModulePath]
      [] a = AddrLong ->
           [ok |-> TRUE, dli_sname |-> <<"m", "a", "i", "n">>,
            dli_saddr |-> <<0, 32767, 61440, 0>>, dli_fname |-> LongPath]
      [] a = AddrFar ->
           [ok |-> TRUE, dli_sname |-> <<"b", "i", "g">>,
            dli_saddr |-> <<65520, 0, 0, 0>>, dli_fname |-> ModulePath]
      [] OTHER ->
           [ok |-> FALSE, dli_sname |-> NullStr,
            dli_saddr |-> NULL, dli_fname |-> NullStr]

SymAddrs == {NULL, AddrF, AddrG, AddrNeg, AddrWide, AddrUnmapped, AddrLong}

\* The caller's arrays handed to the formatters.
Buffers(n) == [0 .. n - 1 -> SymAddrs]

\* backtrace_symbols_fd() sizes the offset with D10 where backtrace_symbols()
\* reserves 20 characters, so its arrays also hold the far address.
FdAddrs == SymAddrs \cup {AddrFar}

FdBuffers(n) == [0 .. n - 1 -> FdAddrs]

\* ------------------------------------------------------------------ heap
HeapBases == {Word * k : k \in 1 .. NumBases}

\* malloc(n): a null pointer, or the base of a block no live block uses.
MallocResults == {0} \cup (HeapBases \ DOMAIN heap)

\* realloc(ptr, n): a null pointer (ptr stays live), ptr grown in place, or
\* a block elsewhere (ptr is released, its contents carried over).
ReallocResults(ptr) == {0} \cup {ptr} \cup (HeapBases \ DOMAIN heap)

Release(h, ptr) == [b \in DOMAIN h \ {ptr} |-> h[b]]

Place(h, ptr, n) == [b \in DOMAIN h \cup {ptr} |-> IF b = ptr THEN n ELSE h[b]]

\* realloc_safe() without the free(ptr) of a failed realloc().
realloc_leaky_heap(h, ptr, n, nptr) ==
    IF n = 0 THEN Release(h, ptr)
    ELSE IF nptr = 0 THEN h
    ELSE Place(Release(h, ptr), nptr, n)

\* The heap after realloc_safe(ptr, n) when realloc returned nptr.  The
\* size > SIZE_MAX / 2 test cannot succeed for the lengths modelled.
realloc_safe_heap(h, ptr, n, nptr) ==
    IF n = 0 THEN Release(h, ptr)
    ELSE IF nptr = 0 THEN Release(h, ptr)
    ELSE Place(Release(h, ptr), nptr, n)

\* The value realloc_safe(ptr, n) returns when realloc returned nptr.
realloc_safe(n, nptr) == IF n = 0 THEN 0 ELSE nptr

\* ------------------------------------------------------ backtrace_symbols
\* The Dl_info with dli_sname left as the loader gave it.
SymInfoNoDefault(a) ==
    LET info == dladdr(a)
    IN  [info EXCEPT !.dli_saddr = IF @ = NULL THEN a ELSE @]

\* The Dl_info after the two defaults: a null dli_sname becomes "???", a
\* null dli_saddr becomes the address itself.
SymInfo(a) ==
    LET info == dladdr(a)
    IN  [info EXCEPT
           !.dli_sname = IF @ = NullStr THEN <<"?", "?", "?">> ELSE @,
           !.dli_saddr = IF @ = NULL THEN a ELSE @]

\* offset = (char *)buffer[i] - (char *)info.dli_saddr
Offset(a) == Sub64(a, SymInfo(a).dli_saddr)

\* The format "%p <%s+%td> at %s" applied to buffer[i] and its Dl_info.
ResolvedLine(a) ==
    FmtP(a) \o <<" ", "<">> \o SymInfo(a).dli_sname \o <<"+">>
      \o FmtTd(Offset(a)) \o <<">", " ", "a", "t", " ">> \o SymInfo(a).dli_fname

\* alen with sizeof(void *) hexadecimal digits instead of twice as many.
SymbolsAlenShort(a) ==
    IF dladdr(a).ok
      THEN 2 + PtrSize + 2 + strlen(SymInfo(a).dli_sname) + 1 + 20 + 5
             + strlen(SymInfo(a).dli_fname) + 1
      ELSE 2 + PtrSize + 1

\* alen of backtrace_symbols() for buffer[i] = a.
SymbolsAlen(a) ==
    IF dladdr(a).ok
      THEN 2 + (PtrSize * 2) + 2 + strlen(SymInfo(a).dli_sname) + 1 + 20 + 5
             + strlen(SymInfo(a).dli_fname) + 1
      ELSE 2 + (PtrSize * 2) + 1

\* What snprintf() stores at rval + clen for buffer[i] = a.
SymbolsText(a) ==
    IF dladdr(a).ok
      THEN snprintf(<<>>, SymbolsAlen(a), ResolvedLine(a))
      ELSE snprintf(<<>>, SymbolsAlen(a), FmtP(a))

\* rval[i] = (char *) clen, the offset of the line just stored; al is its alen.
StoredOffsetAfter(c, al) == c + al
StoredOffset(c, al) == c

\* char **backtrace_symbols(void *const *buffer, int size): entry, the
\* size <= 0 return, clen = size * sizeof(char *) and rval = malloc(clen).
SymbolsCall(sz, b, m) ==
    /\ pc = "idle"
    /\ size' = sz
    /\ buffer' = b
    /\ i' = 0
    /\ text' = <<>>
    /\ moved' = 0
    /\ IF sz <= 0
         THEN /\ pc' = "sym_done"
              /\ symret' = 0
              /\ UNCHANGED <<heap, nalloc, rval, clen, idx>>
         ELSE /\ nalloc' = nalloc + 1
              /\ clen' = sz * PtrSize
              /\ rval' = m
              /\ idx' = [k \in 0 .. sz - 1 |-> -1]
              /\ IF m = 0
                   THEN /\ pc' = "sym_done"
                        /\ symret' = 0
                        /\ heap' = heap
                   ELSE /\ pc' = "sym_loop"
                        /\ symret' = symret
                        /\ heap' = Place(heap, m, sz * PtrSize)
    /\ UNCHANGED <<stack, walk, written, ret, badfree>>
    /\ UNCHANGED fdvars

\* One pass of the first loop: rval = realloc_safe(rval, clen + alen), the
\* return on a null result, snprintf at rval + clen, rval[i] = clen,
\* clen += alen.
SymbolsLine(nptr) ==
    /\ pc = "sym_loop"
    /\ i < size
    /\ LET a == buffer[i]
           alen == SymbolsAlen(a)
           p == realloc_safe(clen + alen, nptr)
       IN  /\ nalloc' = nalloc + 1
           /\ moved' = IF p # 0 /\ p # rval THEN moved + 1 ELSE moved
           /\ heap' = realloc_safe_heap(heap, rval, clen + alen, nptr)
           /\ rval' = p
           /\ IF p = 0
                THEN /\ pc' = "sym_done"
                     /\ symret' = 0
                     /\ UNCHANGED <<i, clen, idx, text>>
                ELSE /\ text' = Append(text, [off |-> clen, room |-> alen,
                                              str |-> SymbolsText(a)])
                     /\ idx' = [idx EXCEPT ![i] = StoredOffset(clen, alen)]
                     /\ clen' = clen + alen
                     /\ i' = i + 1
                     /\ pc' = "sym_loop"
                     /\ symret' = symret
    /\ UNCHANGED <<stack, size, buffer, walk, written, ret, badfree>>
    /\ UNCHANGED fdvars

\* The second loop, rval[i] += (uintptr_t) rval for every i, and the return
\* of rval.
SymbolsFixup ==
    /\ pc = "sym_loop"
    /\ ~(i < size)
    /\ idx' = [k \in DOMAIN idx |-> idx[k] + rval]
    /\ symret' = rval
    /\ pc' = "sym_done"
    /\ UNCHANGED <<stack, size, i, buffer, walk, written, ret, heap, nalloc,
                   rval, clen, text, moved, badfree>>
    /\ UNCHANGED fdvars

\* -------------------------------------------------------- free_bt_symbols
\* free_bt_symbols(symbols, size) of the tests on the value returned: the
\* return on a null symbols, and i = 0.
FreeCall ==
    /\ pc = "sym_done"
    /\ i' = 0
    /\ pc' = IF symret = 0 THEN "free_done" ELSE "free_loop"
    /\ UNCHANGED <<stack, size, buffer, walk, written, ret, heap, nalloc,
                   rval, clen, idx, text, symret, moved, badfree>>
    /\ UNCHANGED fdvars

\* What free(p) may do when p starts no live block (undefined behaviour):
\* the allocator aborts the process, or the call returns.
BadFreeOutcomes == {"abort", "return"}

\* free(symbols[i]); i++
FreeString(o) ==
    /\ pc = "free_loop"
    /\ i < size
    /\ LET p == idx[i]
       IN  IF p = 0 \/ p \in DOMAIN heap
             THEN /\ heap' = Release(heap, p)
                  /\ badfree' = badfree
                  /\ pc' = "free_loop"
                  /\ i' = i + 1
             ELSE /\ heap' = heap
                  /\ badfree' = TRUE
                  /\ pc' = IF o = "abort" THEN "aborted" ELSE "free_loop"
                  /\ i' = IF o = "abort" THEN i ELSE i + 1
    /\ UNCHANGED <<stack, size, buffer, walk, written, ret, nalloc, rval,
                   clen, idx, text, symret, moved>>
    /\ UNCHANGED fdvars

\* free(symbols) after the loop.
FreeArray ==
    /\ pc = "free_loop"
    /\ ~(i < size)
    /\ IF symret \in DOMAIN heap
         THEN /\ heap' = Release(heap, symret)
              /\ badfree' = badfree
         ELSE /\ heap' = heap
              /\ badfree' = TRUE
    /\ pc' = "free_done"
    /\ UNCHANGED <<stack, size, i, buffer, walk, written, ret, nalloc, rval,
                   clen, idx, text, symret, moved>>
    /\ UNCHANGED fdvars

\* --------------------------------------------------- backtrace_symbols_fd
IntMin == -2147483647 - 1

\* D10(x) = ceil(log10(x == 0 ? 2 : x + 1)) has no value for x < 0: the
\* logarithm is minus infinity or not a number.
D10Undefined(x) == IsNeg(x)

\* 10^15 as a 64-bit value.
TenTo15 == <<3, 36222, 42182, 32768>>

\* log10(x + 1) in double precision is the whole number 15 although x + 1
\* exceeds 10^15: the logarithm lies less than half a unit in the last
\* place above 15 (the two values of x below 10^16 for which this is so).
LogRoundsDown(x) == x = TenTo15 \/ x = [TenTo15 EXCEPT ![4] = @ + 1]

\* D10(x) for x >= 0: ceil(log10(2)) = 1 for 0; otherwise the number of
\* decimal digits of x, except where the logarithm rounds down to a whole
\* number, which ceil() leaves as it is (exact for the offsets modelled,
\* which lie below 10^16).
D10(x) == IF LogRoundsDown(x) THEN Len(UDec(x)) - 1 ELSE Len(UDec(x))

\* The int a double that is not a number converts to (undefined behaviour):
\* INT_MIN or 0, by processor.
IntOfNaN == {IntMin, 0}

\* len of backtrace_symbols_fd() for buffer[i] = a; u is the value the
\* undefined conversion yields.
FdLen(a, u) ==
    IF dladdr(a).ok
      THEN IF D10Undefined(Offset(a)) THEN u
           ELSE 2 + (PtrSize * 2) + 2 + strlen(SymInfo(a).dli_sname) + 1
                  + D10(Offset(a)) + 5 + strlen(SymInfo(a).dli_fname) + 2
      ELSE 2 + (PtrSize * 2) + 2

\* The outcomes of the undefined conversion that apply to buffer[i] = a.
LenChoices(a) ==
    IF dladdr(a).ok /\ D10Undefined(Offset(a)) THEN IntOfNaN ELSE {0}

\* The text the two formats of backtrace_symbols_fd() render.
FdRendered(a) ==
    IF dladdr(a).ok THEN ResolvedLine(a) \o <<"\n">> ELSE FmtP(a) \o <<"\n">>

\* static_buf before anything is stored in it.
Uninit == <<"(uninitialised)">>

\* What a read of the uninitialised static_buf may find (undefined
\* behaviour): an empty text or some text.
Garbage == {<<>>, <<"?">>}

\* The texts static_buf may show when snprintf() is given the length len:
\* what is in it, unless it is uninitialised and nothing is stored.
GarbageChoices(n) ==
    IF n = 0 /\ static_buf = Uninit THEN Garbage ELSE {static_buf}

Fds == {-1, 1}

\* if (size <= 0 || fd < 0) return;
FdNoOpBoth(sz, f) == sz <= 0 /\ f < 0
FdNoOp(sz, f) == sz <= 0 \/ f < 0

\* void backtrace_symbols_fd(void *const *buffer, int size, int fd): entry
\* and the size <= 0 || fd < 0 return.
FdCall(sz, b, f) ==
    /\ pc = "idle"
    /\ size' = sz
    /\ buffer' = b
    /\ fd' = f
    /\ i' = 0
    /\ static_buf' = Uninit
    /\ pc' = IF FdNoOp(sz, f) THEN "fd_done" ELSE "fd_loop"
    /\ UNCHANGED <<stack, walk, written, ret, buf, dyn, len, out>>
    /\ UNCHANGED symvars

\* The first part of the loop body: len, the choice between static_buf and
\* malloc(len) with the return when malloc fails, and snprintf(buf, len, ...);
\* g is the text static_buf shows when nothing is stored in it.
FdFormat(u, m, g) ==
    /\ pc = "fd_loop"
    /\ i < size
    /\ LET a == buffer[i]
           n == FdLen(a, u)
       IN  /\ len' = n
           /\ IF n <= MAX_STACK_BUFFER
             THEN /\ buf' = 0
                  /\ static_buf' = snprintf(g, n, FdRendered(a))
                  /\ pc' = "fd_write"
                  /\ UNCHANGED <<heap, nalloc, dyn>>
             ELSE /\ nalloc' = nalloc + 1
                  /\ buf' = m
                  /\ IF m = 0
                       THEN /\ pc' = "fd_done"
                            /\ UNCHANGED <<heap, dyn>>
                       ELSE /\ pc' = "fd_write"
                            /\ heap' = Place(heap, m, n)
                            /\ dyn' = snprintf(<<>>, n, FdRendered(a))
                  /\ UNCHANGED static_buf
    /\ UNCHANGED <<stack, size, i, buffer, walk, written, ret, fd, out>>
    /\ UNCHANGED <<rval, clen, idx, text, symret, moved, badfree>>

\* The results write(fd, buf, n) may have: an error, all n bytes, or fewer.
WriteResults(n) == {-1, n, n \div 2}

\* The rest of the loop body: written = write(fd, buf, strlen(buf)), the
\* result dropped; free(buf) unless buf is static_buf; i++.
FdWrite(w) ==
    /\ pc = "fd_write"
    /\ LET s == IF buf = 0 THEN static_buf ELSE dyn
       IN  out' = Append(out, [data |-> s, res |-> w])
    /\ IF buf # 0
         THEN /\ heap' = Release(heap, buf)
              /\ dyn' = <<>>
         ELSE UNCHANGED <<heap, dyn>>
    /\ i' = i + 1
    /\ pc' = "fd_loop"
    /\ UNCHANGED <<stack, size, buffer, walk, written, ret, fd, static_buf, buf,
                   len>>
    /\ UNCHANGED <<nalloc, rval, clen, idx, text, symret, moved, badfree>>

\* The loop condition failing: the function returns.
FdReturn ==
    /\ pc = "fd_loop"
    /\ ~(i < size)
    /\ pc' = "fd_done"
    /\ UNCHANGED <<stack, size, i, buffer, walk, written, ret>>
    /\ UNCHANGED symvars
    /\ UNCHANGED fdvars

vars == <<pc, stack, size, i, buffer, walk, written, ret, heap, nalloc, rval,
          clen, idx, text, symret, moved, badfree, fd, static_buf, buf, dyn,
          len, out>>

Init ==
    /\ pc = "idle"
    /\ stack = <<>>
    /\ size = 0
    /\ i = 0
    /\ buffer = [k \in BufSlots |-> Untouched]
    /\ walk = <<>>
    /\ written = {}
    /\ ret = -1
    /\ heap = <<>>
    /\ nalloc = 0
    /\ rval = 0
    /\ clen = 0
    /\ idx = <<>>
    /\ text = <<>>
    /\ symret = 0
    /\ moved = 0
    /\ badfree = FALSE
    /\ fd = 0
    /\ static_buf = <<>>
    /\ buf = 0
    /\ dyn = <<>>
    /\ len = 0
    /\ out = <<>>

Next ==
    \/ \E sz \in -1 .. MaxSize, st \in Stacks : BacktraceCall(sz, st)
    \/ BacktraceTest
    \/ BacktraceBody
    \/ \E sz \in -1 .. MaxCount, m \in MallocResults :
         \E b \in Buffers(sz) : SymbolsCall(sz, b, m)
    \/ \E nptr \in ReallocResults(rval) : SymbolsLine(nptr)
    \/ SymbolsFixup
    \/ FreeCall
    \/ \E o \in BadFreeOutcomes : FreeString(o)
    \/ FreeArray
    \/ \E sz \in -1 .. MaxCount, f \in Fds :
         \E b \in FdBuffers(sz) : FdCall(sz, b, f)
    \/ /\ pc = "fd_loop" /\ i < size
       /\ \E u \in LenChoices(buffer[i]), m \in MallocResults :
            \E g \in GarbageChoices(FdLen(buffer[i], u)) : FdFormat(u, m, g)
    \/ \E w \in WriteResults(Len(IF buf = 0 THEN static_buf ELSE dyn)) : FdWrite(w)
    \/ FdReturn

Spec == Init /\ [][Next]_vars

\* ================================================================ claims
InBacktrace == pc \in {"bt_test", "bt_body", "bt_done"}
InFd == pc \in {"fd_loop", "fd_write", "fd_done"}
Returned == pc = "sym_done" /\ symret # 0

\* C1: whenever backtrace() is called with a capacity <= 0 it returns 0,
\* has asked the Frame Walker nothing, and every slot of the caller's
\* buffer still holds what it held before the call.
C1_NoCapacity ==
    (InBacktrace /\ size <= 0) =>
        /\ pc = "bt_done"
        /\ ret = 0
        /\ walk = <<>>
        /\ written = {}
        /\ \A k \in BufSlots : buffer[k] = Untouched

\* C1 witness: a call with a negative capacity on a chain of two frames
\* has returned.
C1_Witness == pc = "bt_done" /\ size = -1 /\ Len(stack) = 2

\* C2: for a capacity > 0 and any call chain, at every step of backtrace()
\* the stores made so far went to indices 0 .. capacity - 1 only (the slots
\* outside that range are untouched), and the count returned lies in
\* 0 .. capacity.
C2_Bounded ==
    (InBacktrace /\ size > 0) =>
        /\ written \subseteq 0 .. size - 1
        /\ \A k \in BufSlots : k >= size => buffer[k] = Untouched
        /\ pc = "bt_done" => ret \in 0 .. size

\* C2 witness: the capacity was reached on a chain deeper than it.
C2_Witness ==
    /\ pc = "bt_done" /\ size = 2 /\ ret = size
    /\ Len(stack) > size
    /\ written = {0, 1}

\* C3: after backtrace() returns count, buffer[k] for every k < count is
\* the non-null return address the walker reports for index k + 1.
C3_Consecutive ==
    pc = "bt_done" =>
        \A k \in 0 .. ret - 1 :
            /\ buffer[k] = getreturnaddr(k + 1)
            /\ buffer[k] # NULL

\* C3 witness: two different return addresses were captured.
C3_Witness ==
    pc = "bt_done" /\ ret = 2 /\ buffer[0] = AddrG /\ buffer[1] = AddrF

\* The depth of the call chain: every frame of it has a return address.
ChainDepth == Len(stack)
AllWalkable == \A k \in 1 .. Len(stack) : stack[k] # NULL

\* C4: when every frame of a chain of depth d has a return address and
\* capacity >= d, backtrace() returns d (no frame is dropped at the bottom).
C4_FullDepth ==
    (pc = "bt_done" /\ AllWalkable /\ size > 0 /\ size >= ChainDepth) =>
        ret = ChainDepth

\* C5: backtrace_symbols() never goes on with a null arena; when it returns
\* NULL for a count > 0 (an allocation failed) no block of the heap is
\* live; when it returns an array, every entry and every line is there.
C5_FailureReleasesAll ==
    /\ pc = "sym_loop" => (rval # 0 /\ DOMAIN heap = {rval})
    /\ (pc = "sym_done" /\ size > 0 /\ symret = 0) => DOMAIN heap = {}
    /\ Returned => (Len(text) = size /\ \A k \in 0 .. size - 1 : idx[k] > 0)

\* C5 witness: the growth for the second line failed after the index and
\* the first line had been allocated.
C5_Witness ==
    /\ pc = "sym_done" /\ size = 2 /\ symret = 0
    /\ nalloc = 3 /\ Len(text) = 1

\* C6: when backtrace_symbols() returns an array, the only live block is
\* the one returned; entry k points at the returned base plus the offset
\* at which line k was stored; the lines lie after the size pointers, one
\* after the other without overlap, each with its terminator, inside the
\* block.
C6_OneArena ==
    Returned =>
        /\ DOMAIN heap = {symret}
        /\ Len(text) = size
        /\ \A k \in 0 .. size - 1 :
             LET line == text[k + 1]
                 end == IF k + 1 < size THEN text[k + 2].off ELSE heap[symret]
             IN  /\ idx[k] = symret + line.off
                 /\ line.off >= size * PtrSize
                 /\ Len(line.str) + 1 <= line.room
                 /\ line.off + line.room <= end

\* C6 witness: two lines were returned and the arena moved at both growths.
C6_Witness == Returned /\ size = 2 /\ moved = 2

\* Address p starts a live heap block.
StartsBlock(p) == p \in DOMAIN heap

\* C7: every string pointer backtrace_symbols() returns starts a live block
\* of its own, other than the array's, and the release sequence of the
\* tests never hands free() anything else.
C7_OwnBlocks ==
    /\ Returned =>
         \A k \in 0 .. size - 1 : StartsBlock(idx[k]) /\ idx[k] # symret
    /\ ~badfree

\* The line the returned pointer p points at.
LineAt(p) == {l \in 1 .. Len(text) : symret + text[l].off = p}

\* C8: when backtrace_symbols() returns an array for count > 0, it holds
\* count lines; the k-th pointer leads to the k-th line stored, which is
\* not empty and begins with the %p rendering of buffer[k].
C8_LinesInOrder ==
    Returned =>
        /\ size > 0
        /\ Len(text) = size
        /\ \A k \in 0 .. size - 1 :
             /\ LineAt(idx[k]) = {k + 1}
             /\ text[k + 1].str # <<>>
             /\ IsPrefix(FmtP(buffer[k]), text[k + 1].str)

\* C8 witness: a 16-digit address that resolves and a 16-digit address
\* that does not were both rendered.
C8_Witness ==
    Returned /\ size = 2 /\ buffer[0] = AddrWide /\ buffer[1] = AddrUnmapped

\* C9: for a count <= 0 backtrace_symbols() returns NULL having called no
\* allocator; backtrace_symbols_fd() with a count <= 0 or a negative
\* descriptor returns at once, having written and allocated nothing.
C9_NoOp ==
    /\ (pc = "sym_done" /\ size <= 0) =>
         (symret = 0 /\ nalloc = 0 /\ DOMAIN heap = {})
    /\ (InFd /\ (size <= 0 \/ fd < 0)) =>
         (pc = "fd_done" /\ out = <<>> /\ nalloc = 0 /\ DOMAIN heap = {})

\* C9 witness: a call with a negative descriptor and two addresses, the
\* first of which needs a heap buffer, has returned.
C9_Witness ==
    pc = "fd_done" /\ fd < 0 /\ size = 2 /\ buffer[0] = AddrLong

Sentinel == <<" ", "<", "?", "?", "?", "+", "0", ">">>
At == <<" ", "a", "t", " ">>

\* C10 as stated: the line of an address the loader does not know carries
\* the name ??? and the offset 0, in both formatters.
C10_SentinelOnMiss ==
    /\ \A l \in 1 .. Len(text) :
         ~dladdr(buffer[l - 1]).ok =>
             IsPrefix(FmtP(buffer[l - 1]) \o Sentinel, text[l].str)
    /\ InFd =>
         \A l \in 1 .. Len(out) :
             ~dladdr(buffer[l - 1]).ok =>
                 IsPrefix(FmtP(buffer[l - 1]) \o Sentinel, out[l].data)

\* The loader knows the module of a but neither a symbol name nor a symbol
\* address.
Nameless(a) ==
    dladdr(a).ok /\ dladdr(a).dli_sname = NullStr /\ dladdr(a).dli_saddr = NULL

\* C10 amended: in both formatters the line of an address the loader does
\* not know is the bare address (no name, no offset), and the line of an
\* address whose module is known without symbol name and symbol address
\* carries the name ??? and the offset 0.
C10_BareOnMiss ==
    /\ \A l \in 1 .. Len(text) :
         LET a == buffer[l - 1]
         IN  /\ ~dladdr(a).ok => text[l].str = FmtP(a)
             /\ Nameless(a) =>
                  text[l].str = FmtP(a) \o Sentinel \o At \o dladdr(a).dli_fname
    /\ InFd =>
         \A l \in 1 .. Len(out) :
             LET a == buffer[l - 1]
             IN  /\ ~dladdr(a).ok => out[l].data = FmtP(a) \o <<"\n">>
                 /\ Nameless(a) =>
                      out[l].data = FmtP(a) \o Sentinel \o At
                                      \o dladdr(a).dli_fname \o <<"\n">>

\* C10 witness: the streaming formatter has written the line of an address
\* the loader does not know and the line of one it knows only the module of.
C10_Witness ==
    /\ pc = "fd_done" /\ Len(out) = 2
    /\ buffer[0] = AddrUnmapped /\ buffer[1] = AddrG

\* backtrace_symbols_fd() got past its guard: count > 0 and a descriptor
\* that is not negative.
FdRan == InFd /\ ~FdNoOp(size, fd)

\* The call ended on a failed malloc(), before the last address.
FdAllocFailed == pc = "fd_done" /\ i < size

\* One write() per address handled so far, whatever the earlier writes
\* returned; all count of them once the call has returned.
C11_OneWriteEach ==
    FdRan =>
        /\ Len(out) = i
        /\ (pc = "fd_done" /\ ~FdAllocFailed) => Len(out) = size

\* The l-th write carries the line of the l-th address.
C11_LinesCarried ==
    FdRan => \A l \in 1 .. Len(out) : out[l].data = FdRendered(buffer[l - 1])

\* The only block ever live is the buffer of the line being written.
C11_Released ==
    FdRan =>
        /\ pc \in {"fd_loop", "fd_done"} => DOMAIN heap = {}
        /\ pc = "fd_write" => DOMAIN heap \subseteq {buf}

\* C11: for count > 0, a valid descriptor and no failed allocation,
\* backtrace_symbols_fd() calls write() exactly count times, the l-th call
\* carrying the line of the l-th address; a failed or short write is not
\* retried and does not end the loop; the buffer of a line is freed before
\* the next address, so nothing is allocated at return.
C11_WritesEveryLine ==
    /\ C11_OneWriteEach
    /\ C11_LinesCarried
    /\ C11_Released

\* A failed first write was followed by the write for the second address,
\* and a heap buffer was used on the way.
C11_FailedWriteSeen ==
    /\ pc = "fd_done" /\ FdRan /\ Len(out) = 2
    /\ out[1].res = -1 /\ buffer[0] = AddrLong /\ nalloc = 1

\* The characters of a resolved line besides the offset's numeral, with
\* the newline and the terminator.
FdFixedLen(a) ==
    2 + (PtrSize * 2) + 2 + strlen(SymInfo(a).dli_sname) + 1
      + 5 + strlen(SymInfo(a).dli_fname) + 2

\* What write() is about to be handed.
FdPending == IF buf = 0 THEN static_buf ELSE dyn

\* C12: in backtrace_symbols_fd(), for every address the loader resolves
\* and every offset, len is at least the length of the rendered line with
\* its newline and terminator, so the bytes written are the whole line
\* ending in a newline; the numeral-width term of len is the number of
\* characters of the offset's signed decimal rendering.
C12_LenCoversLine ==
    (FdRan /\ pc = "fd_write" /\ dladdr(buffer[i]).ok) =>
        LET a == buffer[i]
        IN  /\ len >= Len(FdRendered(a)) + 1
            /\ FdPending = FdRendered(a)
            /\ len - FdFixedLen(a) = Len(FmtTd(Offset(a)))

\* C12 limited to offsets from 0 up to 10^15 - 1, where D10 is the digit
\* count.
C12_SmallOffsets ==
    (FdRan /\ pc = "fd_write" /\ dladdr(buffer[i]).ok
       /\ buffer[i] \notin {AddrNeg, AddrWide, AddrFar}) =>
        LET a == buffer[i]
        IN  /\ len >= Len(FdRendered(a)) + 1
            /\ FdPending = FdRendered(a)
            /\ len - FdFixedLen(a) = Len(FmtTd(Offset(a)))

\* The line of the far address as it is written: without its newline.
C12_NoNewlineSeen ==
    /\ FdRan /\ Len(out) >= 1 /\ buffer[0] = AddrFar
    /\ out[1].data \o <<"\n">> = FdRendered(AddrFar)

====
